---------------------------- MODULE Spec2Model ----------------------------
(***************************************************************************)
(* Model of the site mraag.xyz.                                            *)
(*                                                                         *)
(* The asset resolver (site/_data/assets.js): the function mapAsset, the   *)
(* module body that calls it for the stylesheet and the script bundle, and *)
(* the gulp task 'clean' that removes the revision manifests it reads.     *)
(* The asset build (gulpfile): the tasks 'css' and 'js', which write       *)
(* revisioned files and a manifest, alone or in parallel under 'build'.    *)
(* The script bundle (earlier gulpfile): the sources of 'js' chosen from   *)
(* the environment.  The page script (js/handlers.js): get and the click   *)
(* listener.  The template filter firstParagraph (eleventy configuration). *)
(*                                                                         *)
(* JavaScript strings are sequences of one-character strings, so that      *)
(* concatenation is \o and "contains verbatim" is a contiguous             *)
(* subsequence.  A file is either absent or holds a text; a text is either *)
(* not JSON or the JSON document of a value.                               *)
(***************************************************************************)
EXTENDS Integers, Sequences, FiniteSets, TLC

(***************************************************************************)
(* Bounds                                                                  *)
(***************************************************************************)
\* the number of calls of mapAsset in one run
MaxCalls == 3
\* the number of tasks of the asset build started in one run
MaxRuns == 3
\* the number of pieces of markup in a content given to firstParagraph
MaxPieces == 3

(***************************************************************************)
(* String literals                                                         *)
(***************************************************************************)
css == <<"c","s","s">>
js == <<"j","s">>
main_css == <<"m","a","i","n",".","c","s","s">>
main_js == <<"m","a","i","n",".","j","s">>
prism_css == <<"p","r","i","s","m",".","c","s","s">>
toString == <<"t","o","S","t","r","i","n","g">>
constructor == <<"c","o","n","s","t","r","u","c","t","o","r">>
length == <<"l","e","n","g","t","h">>
site == <<"s","i","t","e">>
rev_manifest_json == <<"r","e","v","-","m","a","n","i","f","e","s","t",".","j","s","o","n">>
\* deployed (content-hashed) file names used in the sample manifests
main_css_rev == <<"m","a","i","n",".","a","1","b","2","c","3",".","c","s","s">>
main_js_rev == <<"m","a","i","n",".","9","f","8","e","7","d",".","j","s">>
prism_css_rev == <<"p","r","i","s","m",".","d","4","e","5","f","6",".","c","s","s">>
\* process.cwd() of the site-generation run
cwd == <<"/","r","e","p","o">>

\* Texts of the errors raised by the Node runtime.  The SyntaxError is the
\* one of a text cut off before its end; the TypeError is worded as by the
\* Node releases before 16 ("Cannot read property 'k' of null"), the later
\* wording names the same property and no category either.
ENOENT_TEXT == <<"E","N","O","E","N","T",":"," ","n","o"," ","s","u","c","h"," ","f","i","l","e"," ","o","r"," ","d","i","r","e","c","t","o","r","y",","," ","o","p","e","n"," ","'">>
SYNTAX_TEXT == <<"U","n","e","x","p","e","c","t","e","d"," ","e","n","d"," ","o","f"," ","J","S","O","N"," ","i","n","p","u","t">>
TYPE_TEXT == <<"C","a","n","n","o","t"," ","r","e","a","d"," ","p","r","o","p","e","r","t","y"," ","'">>
OF_NULL_TEXT == <<"'"," ","o","f"," ","n","u","l","l">>
\* Text of the error raised by mapAsset itself
NO_REVISION_TEXT == <<"N","o"," ","r","e","v","i","s","i","o","n"," ","f","o","u","n","d"," ","f","o","r"," ","a","s","s","e","t"," ","/">>

(***************************************************************************)
(* JavaScript values                                                       *)
(***************************************************************************)
Undefined == [t |-> "undefined"]
Null == [t |-> "null"]
Bool(b) == [t |-> "boolean", b |-> b]
Num(n) == [t |-> "number", n |-> n]
Str(s) == [t |-> "string", s |-> s]
\* a built-in function, known by its name
Fn(name) == [t |-> "function", name |-> name]
\* a plain object: own keys to values
Obj(m) == [t |-> "object", m |-> m]
Arr(e) == [t |-> "array", e |-> e]

\* the object without own keys
EmptyMap == [k \in {} |-> Undefined]

\* Properties every value inherits from Object.prototype (the two of them
\* that the calls of the model ask for).
ObjectPrototypeProps == {toString, constructor}

\* Name of the constructor function of a value's prototype.
ConstructorName(v) ==
  CASE v.t = "object" -> <<"O","b","j","e","c","t">>
    [] v.t = "array" -> <<"A","r","r","a","y">>
    [] v.t = "number" -> <<"N","u","m","b","e","r">>
    [] v.t = "boolean" -> <<"B","o","o","l","e","a","n">>
    [] v.t = "string" -> <<"S","t","r","i","n","g">>
    [] v.t = "function" -> <<"F","u","n","c","t","i","o","n">>

Digits == <<"0","1","2","3","4","5","6","7","8","9">>

\* Number::toString for the non-negative integers.
RECURSIVE NumToStr(_)
NumToStr(n) ==
  IF n < 10 THEN <<Digits[n + 1]>>
  ELSE NumToStr(n \div 10) \o <<Digits[(n % 10) + 1]>>

\* Property of the prototype chain of v named key.
Inherited(v, key) ==
  IF key = constructor THEN Fn(ConstructorName(v))
  ELSE IF key \in ObjectPrototypeProps THEN Fn(key)
  ELSE Undefined

\* v[key]: own property first, then the prototype chain.  Reading a
\* property of null or undefined raises a TypeError, reported as
\* [t |-> "TypeError"].
Get(v, key) ==
  CASE v.t \in {"null", "undefined"} -> [t |-> "TypeError"]
    [] v.t = "object" ->
         IF key \in DOMAIN v.m THEN v.m[key] ELSE Inherited(v, key)
    [] v.t = "array" ->
         IF key = length THEN Num(Len(v.e))
         ELSE IF \E i \in 1..Len(v.e) : key = NumToStr(i - 1)
           THEN v.e[CHOOSE i \in 1..Len(v.e) : key = NumToStr(i - 1)]
         ELSE Inherited(v, key)
    [] v.t = "string" ->
         IF key = length THEN Num(Len(v.s))
         ELSE IF \E i \in 1..Len(v.s) : key = NumToStr(i - 1)
           THEN Str(<<v.s[CHOOSE i \in 1..Len(v.s) : key = NumToStr(i - 1)]>>)
         ELSE Inherited(v, key)
    [] OTHER -> Inherited(v, key)

\* ToBoolean
Truthy(v) ==
  CASE v.t \in {"undefined", "null"} -> FALSE
    [] v.t = "boolean" -> v.b
    [] v.t = "number" -> v.n # 0
    [] v.t = "string" -> v.s # <<>>
    [] OTHER -> TRUE

\* ToString of the language, as applied by a template literal.
RECURSIVE JSToString(_)
JSToString(v) ==
  CASE v.t = "undefined" -> <<"u","n","d","e","f","i","n","e","d">>
    [] v.t = "null" -> <<"n","u","l","l">>
    [] v.t = "boolean" ->
         IF v.b THEN <<"t","r","u","e">> ELSE <<"f","a","l","s","e">>
    [] v.t = "number" -> NumToStr(v.n)
    [] v.t = "string" -> v.s
    [] v.t = "function" ->
         <<"f","u","n","c","t","i","o","n"," ">> \o v.name
           \o <<"(",")"," ","{"," ","[","n","a","t","i","v","e"," ","c","o","d","e","]"," ","}">>
    [] v.t = "object" ->
         <<"[","o","b","j","e","c","t"," ","O","b","j","e","c","t","]">>
    [] v.t = "array" ->
         \* Array.prototype.join(","): null and undefined elements are empty
         IF v.e = <<>> THEN <<>>
         ELSE LET head == IF v.e[1].t \in {"null", "undefined"}
                            THEN <<>> ELSE JSToString(v.e[1])
              IN IF Len(v.e) = 1 THEN head
                 ELSE head \o <<",">> \o JSToString(Arr(Tail(v.e)))

\* s occurs in text as a contiguous run of characters.
Contains(text, s) ==
  \E i \in 0..(Len(text) - Len(s)) :
    \A j \in 1..Len(s) : text[i + j] = s[j]

(***************************************************************************)
(* Files                                                                   *)
(***************************************************************************)
\* the asset categories (output directories) of the build
Categories == {css, js}

\* the logical names asked for
Assets == {main_css, main_js, prism_css, toString}

NoFile == [exists |-> FALSE, valid |-> FALSE, json |-> Undefined]
\* a file whose text is not JSON (cut off before its end)
BadText == [exists |-> TRUE, valid |-> FALSE, json |-> Undefined]
\* a file whose text is the JSON document of v
Json(v) == [exists |-> TRUE, valid |-> TRUE, json |-> v]

\* the contents a manifest file is given
Manifests ==
  { Obj(main_css :> Str(main_css_rev)),
    Obj((main_css :> Str(main_css_rev)) @@ (prism_css :> Str(prism_css_rev))),
    Obj(main_js :> Str(main_js_rev)),
    Obj(main_css :> Str(<<>>)),
    Obj(main_js :> Num(5)) }

FileDatas ==
  {NoFile, BadText, Json(Null), Json(Num(5)), Json(Arr(<<>>))}
    \cup {Json(m) : m \in Manifests}

\* path.join: the non-empty segments, separated by "/"
RECURSIVE pathJoin(_)
pathJoin(segments) ==
  IF segments = <<>> THEN <<>>
  ELSE LET rest == pathJoin(Tail(segments))
       IN IF Head(segments) = <<>> THEN rest
          ELSE IF rest = <<>> THEN Head(segments)
          ELSE Head(segments) \o <<"/">> \o rest

\* the manifest path with the category left out of it
ManifestPath_fixed(route) == pathJoin(<<site, css, rev_manifest_json>>)

\* path.join('site', route, 'rev-manifest.json')
ManifestPath(route) == pathJoin(<<site, route, rev_manifest_json>>)

\* where the asset build writes the manifest of a category:
\* .pipe(rev.manifest()).pipe(gulp.dest('./site/<category>'))
ManifestFile(category) ==
  site \o <<"/">> \o category \o <<"/">> \o rev_manifest_json

ManifestPaths == {ManifestFile(c) : c \in Categories}

(***************************************************************************)
(* Outcomes of a call                                                      *)
(***************************************************************************)
Return(p) == [kind |-> "return", path |-> p, err |-> "", message |-> <<>>]
Throw(e, msg) == [kind |-> "throw", path |-> <<>>, err |-> e, message |-> msg]

\* readFileSync with a fallback: a missing file reads as the document {}
readFileSync_orEmpty(fsys, p) ==
  IF p \in DOMAIN fsys /\ fsys[p].exists
    THEN [error |-> FALSE, data |-> fsys[p], thrown |-> Return(<<>>)]
    ELSE [error |-> FALSE, data |-> Json(Obj(EmptyMap)),
          thrown |-> Return(<<>>)]

\* fs.readFileSync(p): the file's data, or the ENOENT error
readFileSync(fsys, p) ==
  IF p \in DOMAIN fsys /\ fsys[p].exists
    THEN [error |-> FALSE, data |-> fsys[p], thrown |-> Return(<<>>)]
    ELSE [error |-> TRUE, data |-> NoFile,
          thrown |-> Throw("ENOENT", ENOENT_TEXT \o p \o <<"'">>)]

\* JSON.parse(data): the value, or the SyntaxError
JSONparse(data) ==
  IF data.valid
    THEN [error |-> FALSE, value |-> data.json, thrown |-> Return(<<>>)]
    ELSE [error |-> TRUE, value |-> Undefined,
          thrown |-> Throw("SyntaxError", SYNTAX_TEXT)]

\* mapAsset that puts the logical name, not the revision, into the path
mapAsset_logicalName(fsys, out, route, asset) ==
  LET logged == Append(out, cwd)
      read == readFileSync(fsys, ManifestPath(route))
      parsed == JSONparse(read.data)
      manifest == parsed.value
      revision == Get(manifest, asset)
      ret ==
        IF read.error THEN read.thrown
        ELSE IF parsed.error THEN parsed.thrown
        ELSE IF revision.t = "TypeError"
          THEN Throw("TypeError", TYPE_TEXT \o asset \o OF_NULL_TEXT)
        ELSE IF ~Truthy(revision)
          THEN Throw("Error", NO_REVISION_TEXT \o route \o <<"/">> \o asset)
        ELSE Return(<<"/">> \o route \o <<"/">> \o asset)
  IN [ret |-> ret, stdout |-> logged, fs |-> fsys]

\* mapAsset that takes the entry out of the manifest once it has resolved it
mapAsset_consuming(fsys, out, route, asset) ==
  LET logged == Append(out, cwd)
      read == readFileSync(fsys, ManifestPath(route))
      parsed == JSONparse(read.data)
      manifest == parsed.value
      revision == Get(manifest, asset)
      ret ==
        IF read.error THEN read.thrown
        ELSE IF parsed.error THEN parsed.thrown
        ELSE IF revision.t = "TypeError"
          THEN Throw("TypeError", TYPE_TEXT \o asset \o OF_NULL_TEXT)
        ELSE IF ~Truthy(revision)
          THEN Throw("Error", NO_REVISION_TEXT \o route \o <<"/">> \o asset)
        ELSE Return(<<"/">> \o route \o <<"/">> \o JSToString(revision))
      written ==
        IF ret.kind = "return" /\ manifest.t = "object"
             /\ asset \in DOMAIN manifest.m
          THEN [fsys EXCEPT ![ManifestFile(route)] =
                  Json(Obj([k \in DOMAIN manifest.m \ {asset}
                              |-> manifest.m[k]]))]
          ELSE fsys
  IN [ret |-> ret, stdout |-> logged, fs |-> written]

\* mapAsset(route, asset), run on the file system fsys with stdout out:
\* what it returns or throws (ret), and the stdout and the file system it
\* leaves behind.
mapAsset(fsys, out, route, asset) ==
  LET logged == Append(out, cwd)
      read == readFileSync(fsys, ManifestPath(route))
      parsed == JSONparse(read.data)
      manifest == parsed.value
      revision == Get(manifest, asset)
      ret ==
        IF read.error THEN read.thrown
        ELSE IF parsed.error THEN parsed.thrown
        ELSE IF revision.t = "TypeError"
          THEN Throw("TypeError", TYPE_TEXT \o asset \o OF_NULL_TEXT)
        ELSE IF ~Truthy(revision)
          THEN Throw("Error", NO_REVISION_TEXT \o route \o <<"/">> \o asset)
        ELSE Return(<<"/">> \o route \o <<"/">> \o JSToString(revision))
  IN [ret |-> ret, stdout |-> logged, fs |-> fsys]

(***************************************************************************)
(* State                                                                   *)
(***************************************************************************)
VARIABLES
  fs,        \* path of a manifest file -> its data
  stdout,    \* the lines written to standard output
  ncalls,    \* the number of calls of mapAsset made so far
  last,      \* the latest call of mapAsset: arguments, data read, outcome
  ref,       \* an earlier call of mapAsset, kept while its manifest file stays as it was
  loaded,    \* "unloaded", "loaded" or "failed": the load of the data module
  exports,   \* module.exports of the data module
  uncaught,  \* the error that left the module load, when it failed
  reads      \* the manifest files read by the module load, in order

\* the asset build (gulpfile with gulp-rev)
VARIABLES
  srcs,      \* source file -> version of its content, 0 when there is no file
  files,     \* category -> names of the files in site/<category>, manifest apart
  pc,        \* task -> "idle", "dest" (about to write the revisioned files)
             \* or "manifest" (about to write the manifest)
  stream,    \* task -> the revisioned files of its latest run: name -> content
  running,   \* the task started last: "none", "css", "js" or "build"
  before,    \* files and fs when the task started last was started
  runs       \* the number of tasks started so far

\* the script bundle (gulpfile that leaves the analytics out)
VARIABLES
  env,       \* process.env: NODE_ENV and MR_GA_ID
  gulpfile,  \* "start", "loaded" (jsSrc computed) or "built" (task 'js' done)
  jsSrc,     \* the glob patterns of the task 'js'
  bundle,    \* the source files concatenated into site/js/main.js
  stderr     \* the lines written by console.warn

\* the page script (js/handlers.js) and the template filter
VARIABLES
  got,       \* the latest application of get: arguments and result
  click,     \* the latest click: the event and the calls of ga it made
  para       \* the latest application of the filter firstParagraph

resolverVars ==
  <<fs, stdout, ncalls, last, ref, loaded, exports, uncaught, reads>>
buildVars == <<srcs, files, pc, stream, running, before, runs>>
bundleVars == <<env, gulpfile, jsSrc, bundle, stderr>>
pageVars == <<got, click, para>>

vars == <<resolverVars, buildVars, bundleVars, pageVars>>

NoCall ==
  [called |-> FALSE, n |-> 0, route |-> <<>>, asset |-> <<>>, data |-> NoFile,
   out |-> Return(<<>>)]

\* the record of the n-th call
CallOf(n, fsys, route, asset, out) ==
  [called |-> TRUE, n |-> n, route |-> route, asset |-> asset,
   data |-> fsys[ManifestFile(route)], out |-> out]

main == <<"m","a","i","n">>

\* the source files of the asset build: ./css/*.css and ./js/**/*.js
css_main_css == <<"c","s","s","/","m","a","i","n",".","c","s","s">>
css_prism_css == <<"c","s","s","/","p","r","i","s","m",".","c","s","s">>
js_analytics_js == <<"j","s","/","a","n","a","l","y","t","i","c","s",".","j","s">>
js_handlers_js == <<"j","s","/","h","a","n","d","l","e","r","s",".","j","s">>
SourceFiles == {css_main_css, css_prism_css, js_analytics_js, js_handlers_js}

\* the tasks that write to site/: one per category
Tasks == Categories

NoStream == [n \in {} |-> <<>>]

\* the source files in the order gulp.src emits them
SortedSources ==
  <<css_main_css, css_prism_css, js_analytics_js, js_handlers_js>>

\* the versions a source file goes through; 0: there is no such file
ContentsOf(f) == IF f = css_main_css THEN 0..2 ELSE 0..1

\* the glob patterns of the two tasks
css_glob == <<".","/","c","s","s","/","*",".","c","s","s">>
js_glob == <<".","/","j","s","/","*","*","/","*",".","j","s">>

StartsWith(text, prefix) ==
  Len(prefix) <= Len(text) /\ SubSeq(text, 1, Len(prefix)) = prefix
EndsWith(text, suffix) ==
  /\ Len(suffix) <= Len(text)
  /\ SubSeq(text, Len(text) - Len(suffix) + 1, Len(text)) = suffix

\* the last position of the character ch in text, 0 when there is none
LastIndexOf(text, ch) ==
  IF \E i \in 1..Len(text) : text[i] = ch
    THEN CHOOSE i \in 1..Len(text) :
           text[i] = ch /\ \A j \in (i + 1)..Len(text) : text[j] # ch
    ELSE 0

\* the first position of the character ch in text, 0 when there is none
IndexOf(text, ch) ==
  IF \E i \in 1..Len(text) : text[i] = ch
    THEN CHOOSE i \in 1..Len(text) :
           text[i] = ch /\ \A j \in 1..(i - 1) : text[j] # ch
    ELSE 0

Basename(path) == SubSeq(path, LastIndexOf(path, "/") + 1, Len(path))

\* a pattern without its leading "!" and "./"
PatternBody(pattern) ==
  LET p == IF pattern # <<>> /\ pattern[1] = "!" THEN Tail(pattern)
           ELSE pattern
  IN IF StartsWith(p, <<".","/">>) THEN SubSeq(p, 3, Len(p)) ELSE p

\* path matches the body of a pattern: a literal path, "dir/*ext" (the
\* files of dir) or "dir/**/*ext" (the files of dir and below)
GlobMatch(pattern, path) ==
  LET q == PatternBody(pattern)
      i == IndexOf(q, "*")
      prefix == SubSeq(q, 1, i - 1)
      deep == i < Len(q) /\ q[i + 1] = "*"
      suffix == SubSeq(q, LastIndexOf(q, "*") + 1, Len(q))
  IN IF i = 0 THEN q = path
     ELSE /\ StartsWith(path, prefix)
          /\ EndsWith(path, suffix)
          /\ Len(path) >= Len(prefix) + Len(suffix)
          /\ deep \/ LastIndexOf(path, "/") <= Len(prefix)

\* gulp.src(patterns): the existing files that match a positive pattern
\* and no negated one
Src(patterns, sources) ==
  LET positive(f) == \E i \in 1..Len(patterns) :
                       patterns[i][1] # "!" /\ GlobMatch(patterns[i], f)
      negated(f) == \E i \in 1..Len(patterns) :
                      patterns[i][1] = "!" /\ GlobMatch(patterns[i], f)
      wanted(f) == sources[f] # 0 /\ positive(f) /\ ~negated(f)
  IN SelectSeq(SortedSources, wanted)

\* the text of version v of the source file f
TextOf(f, v) == <<Basename(f)[1]>> \o NumToStr(v)

\* concat: the texts of the files, one per line
RECURSIVE ConcatTexts(_, _)
ConcatTexts(fileSeq, sources) ==
  IF fileSeq = <<>> THEN <<>>
  ELSE LET text == TextOf(Head(fileSeq), sources[Head(fileSeq)])
       IN IF Len(fileSeq) = 1 THEN text
          ELSE text \o <<"\n">> \o ConcatTexts(Tail(fileSeq), sources)

\* rev(): the digest of a content.  Equal contents have equal digests and
\* the contents of the model have different ones: the digest is the content
\* without its line breaks.
RevHash(text) == SelectSeq(text, LAMBDA ch : ch # "\n")

\* rev(): name-<digest>.ext
RevPath(name, hash) ==
  LET dot == LastIndexOf(name, ".")
  IN IF dot = 0 THEN name \o <<"-">> \o hash
     ELSE SubSeq(name, 1, dot - 1) \o <<"-">> \o hash
            \o SubSeq(name, dot, Len(name))

\* the files a task sends down its stream: logical name -> content.
\* 'css': every ./css/*.css under its own name (postcss keeps the name);
\* 'js': the ./js/**/*.js files concatenated into main.js, or no file when
\* there is no source file.
StreamOf(t, sources) ==
  IF t = css
    THEN LET found == Src(<<css_glob>>, sources)
         IN [n \in {Basename(found[i]) : i \in 1..Len(found)} |->
               LET f == CHOOSE g \in SourceFiles :
                          Basename(g) = n /\ \E i \in 1..Len(found) : found[i] = g
               IN TextOf(f, sources[f])]
    ELSE LET found == Src(<<js_glob>>, sources)
         IN IF found = <<>> THEN NoStream
            ELSE (main_js :> ConcatTexts(found, sources))

\* both tasks writing to the stylesheet directory
DestDir_css(t) == css

\* gulp.dest('./site/js') of the task 'js', gulp.dest('./site/css') of the
\* task 'css': the category a task writes to
DestDir(t) == t

\* the revisioned names of the files of a stream
RevNames(st) == {RevPath(n, RevHash(st[n])) : n \in DOMAIN st}

\* .pipe(rev()).pipe(gulp.dest(dir)): the revisioned files are added to the
\* directory; no file is removed
DestStep(dir, t, st) ==
  [dir EXCEPT ![DestDir(t)] = dir[DestDir(t)] \cup RevNames(st)]

\* rev.manifest() with the option merge: the entries of the manifest on
\* disk are kept under the new ones
ManifestStep_merge(fsys, t, st) ==
  LET path == ManifestFile(DestDir(t))
      old == IF fsys[path].exists /\ fsys[path].valid
                  /\ fsys[path].json.t = "object"
               THEN fsys[path].json.m ELSE EmptyMap
      new == [n \in DOMAIN st |-> Str(RevPath(n, RevHash(st[n])))]
  IN IF DOMAIN st = {} THEN fsys
     ELSE [fsys EXCEPT ![path] = Json(Obj(new @@ old))]

\* .pipe(rev.manifest()).pipe(gulp.dest(dir)): the manifest of the stream
\* replaces the manifest file; a stream without files writes no manifest
ManifestStep(fsys, t, st) ==
  IF DOMAIN st = {} THEN fsys
  ELSE [fsys EXCEPT ![ManifestFile(DestDir(t))] =
          Json(Obj([n \in DOMAIN st |-> Str(RevPath(n, RevHash(st[n])))]))]

\* a task run from its start to its end on the site [files, fs]
RunTask(st8, t, sources) ==
  [files |-> DestStep(st8.files, t, StreamOf(t, sources)),
   fs |-> ManifestStep(st8.fs, t, StreamOf(t, sources))]

\* the resolver has not run
ResolverQuiet ==
  /\ stdout = <<>>
  /\ ncalls = 0
  /\ last = NoCall
  /\ ref = NoCall
  /\ loaded = "unloaded"
  /\ exports = Obj(EmptyMap)
  /\ uncaught = Return(<<>>)
  /\ reads = <<>>

\* no asset build has run
BuildQuiet ==
  /\ srcs = [f \in SourceFiles |-> 0]
  /\ files = [c \in Categories |-> {}]
  /\ pc = [t \in Tasks |-> "idle"]
  /\ stream = [t \in Tasks |-> NoStream]
  /\ running = "none"
  /\ before = <<>>
  /\ runs = 0

\* the gulpfile of the script bundle has not been loaded
BundleQuiet ==
  /\ env = [NODE_ENV |-> Undefined, MR_GA_ID |-> Undefined]
  /\ gulpfile = "start"
  /\ jsSrc = <<>>
  /\ bundle = <<>>
  /\ stderr = <<>>

\* no click and no template has been handled
PageQuiet ==
  /\ got = [applied |-> FALSE, obj |-> Undefined, path |-> <<>>,
            result |-> Undefined]
  /\ click = [clicked |-> FALSE, event |-> Undefined, sent |-> <<>>]
  /\ para = [applied |-> FALSE, content |-> <<>>, result |-> <<>>]

Init ==
  /\ fs \in [ManifestPaths -> FileDatas]
  /\ stdout = <<>>
  /\ ncalls = 0
  /\ last = NoCall
  /\ ref = NoCall
  /\ loaded = "unloaded"
  /\ exports = Obj(EmptyMap)
  /\ uncaught = Return(<<>>)
  /\ reads = <<>>
  /\ BuildQuiet
  /\ BundleQuiet
  /\ PageQuiet

\* One call mapAsset(route, asset).  remember: the call is kept in ref to be
\* compared with later calls.
Call(route, asset, remember) ==
  /\ ncalls < MaxCalls
  /\ LET r == mapAsset(fs, stdout, route, asset)
     IN /\ fs' = r.fs
        /\ stdout' = r.stdout
        /\ ncalls' = ncalls + 1
        /\ last' = CallOf(ncalls + 1, fs, route, asset, r.ret)
        /\ ref' = IF remember
                   THEN CallOf(ncalls + 1, fs, route, asset, r.ret) ELSE ref
  /\ UNCHANGED <<loaded, exports, uncaught, reads>>
  /\ UNCHANGED <<buildVars, bundleVars, pageVars>>

\* The module body with a fallback: a reference that does not resolve is
\* published under its logical name.
LoadModule_fallback ==
  /\ loaded = "unloaded"
  /\ ncalls + 2 <= MaxCalls
  /\ LET r1 == mapAsset(fs, stdout, css, main_css)
         r2 == mapAsset(r1.fs, r1.stdout, js, main_js)
         p1 == IF r1.ret.kind = "throw"
                 THEN <<"/">> \o css \o <<"/">> \o main_css ELSE r1.ret.path
         p2 == IF r2.ret.kind = "throw"
                 THEN <<"/">> \o js \o <<"/">> \o main_js ELSE r2.ret.path
     IN /\ fs' = r2.fs
        /\ stdout' = r2.stdout
        /\ ncalls' = ncalls + 2
        /\ last' = CallOf(ncalls + 2, r1.fs, js, main_js, r2.ret)
        /\ loaded' = "loaded"
        /\ uncaught' = uncaught
        /\ exports' = Obj((css :> Obj(main :> Str(p1)))
                            @@ (js :> Obj(main :> Str(p2))))
        /\ reads' = <<ManifestPath(css), ManifestPath(js)>>
  /\ UNCHANGED ref
  /\ UNCHANGED <<buildVars, bundleVars, pageVars>>

\* The module body with the references in the other order: js: { main:
\* mapAsset('js', 'main.js') } before css: { main: mapAsset('css',
\* 'main.css') }
LoadModule_jsFirst ==
  /\ loaded = "unloaded"
  /\ ncalls + 2 <= MaxCalls
  /\ LET r1 == mapAsset(fs, stdout, js, main_js)
         r2 == mapAsset(r1.fs, r1.stdout, css, main_css)
     IN IF r1.ret.kind = "throw"
          THEN /\ fs' = r1.fs
               /\ stdout' = r1.stdout
               /\ ncalls' = ncalls + 1
               /\ last' = CallOf(ncalls + 1, fs, js, main_js, r1.ret)
               /\ reads' = <<ManifestPath(js)>>
               /\ loaded' = "failed"
               /\ uncaught' = r1.ret
               /\ exports' = exports
        ELSE IF r2.ret.kind = "throw"
          THEN /\ fs' = r2.fs
               /\ stdout' = r2.stdout
               /\ ncalls' = ncalls + 2
               /\ last' = CallOf(ncalls + 2, r1.fs, css, main_css, r2.ret)
               /\ reads' = <<ManifestPath(js), ManifestPath(css)>>
               /\ loaded' = "failed"
               /\ uncaught' = r2.ret
               /\ exports' = exports
        ELSE /\ fs' = r2.fs
             /\ stdout' = r2.stdout
             /\ ncalls' = ncalls + 2
             /\ last' = CallOf(ncalls + 2, r1.fs, css, main_css, r2.ret)
             /\ reads' = <<ManifestPath(js), ManifestPath(css)>>
             /\ loaded' = "loaded"
             /\ uncaught' = uncaught
             /\ exports' = Obj((css :> Obj(main :> Str(r2.ret.path)))
                                 @@ (js :> Obj(main :> Str(r1.ret.path))))
  /\ UNCHANGED ref
  /\ UNCHANGED <<buildVars, bundleVars, pageVars>>

\* The body of the data module: module.exports = { css: { main:
\* mapAsset('css', 'main.css') }, js: { main: mapAsset('js', 'main.js') } }.
\* The object is assigned only when both calls have returned.
LoadModule ==
  /\ loaded = "unloaded"
  /\ ncalls + 2 <= MaxCalls
  /\ LET r1 == mapAsset(fs, stdout, css, main_css)
         r2 == mapAsset(r1.fs, r1.stdout, js, main_js)
     IN IF r1.ret.kind = "throw"
          THEN /\ fs' = r1.fs
               /\ stdout' = r1.stdout
               /\ ncalls' = ncalls + 1
               /\ last' = CallOf(ncalls + 1, fs, css, main_css, r1.ret)
               /\ reads' = <<ManifestPath(css)>>
               /\ loaded' = "failed"
               /\ uncaught' = r1.ret
               /\ exports' = exports
        ELSE IF r2.ret.kind = "throw"
          THEN /\ fs' = r2.fs
               /\ stdout' = r2.stdout
               /\ ncalls' = ncalls + 2
               /\ last' = CallOf(ncalls + 2, r1.fs, js, main_js, r2.ret)
               /\ reads' = <<ManifestPath(css), ManifestPath(js)>>
               /\ loaded' = "failed"
               /\ uncaught' = r2.ret
               /\ exports' = exports
        ELSE /\ fs' = r2.fs
             /\ stdout' = r2.stdout
             /\ ncalls' = ncalls + 2
             /\ last' = CallOf(ncalls + 2, r1.fs, js, main_js, r2.ret)
             /\ reads' = <<ManifestPath(css), ManifestPath(js)>>
             /\ loaded' = "loaded"
             /\ uncaught' = uncaught
             /\ exports' = Obj((css :> Obj(main :> Str(r1.ret.path)))
                                 @@ (js :> Obj(main :> Str(r2.ret.path))))
  /\ UNCHANGED ref
  /\ UNCHANGED <<buildVars, bundleVars, pageVars>>

\* clean with the patterns './site/js/**/*.js' and './site/css/**/*.css':
\* the revisioned files are removed, the manifests stay
Clean_keepManifests ==
  /\ \A t \in Tasks : pc[t] = "idle"
  /\ fs' = fs
  /\ files' = [c \in Categories |-> {}]
  /\ running' = "none"
  /\ before' = <<>>
  /\ ref' = ref
  /\ UNCHANGED <<stdout, ncalls, last, loaded, exports, uncaught, reads>>
  /\ UNCHANGED <<srcs, pc, stream, runs>>
  /\ UNCHANGED <<bundleVars, pageVars>>

\* gulp.task('clean'): del(['./site/js/**/*', './site/css/**/*']) removes
\* every file of both output directories, the manifests among them.  The
\* task is run when no other task is running.
Clean ==
  /\ \A t \in Tasks : pc[t] = "idle"
  /\ fs' = [p \in DOMAIN fs |-> NoFile]
  /\ files' = [c \in Categories |-> {}]
  /\ running' = "none"
  /\ before' = <<>>
  /\ ref' = IF ref.called /\ ref.data.exists THEN NoCall ELSE ref
  /\ UNCHANGED <<stdout, ncalls, last, loaded, exports, uncaught, reads>>
  /\ UNCHANGED <<srcs, pc, stream, runs>>
  /\ UNCHANGED <<bundleVars, pageVars>>

(***************************************************************************)
(* The asset build                                                         *)
(***************************************************************************)
\* the tasks started by a command: gulp css, gulp js, gulp build
\* (gulp.parallel('css', 'js'))
Commands == {"css", "js", "build"}
TasksOf(cmd) ==
  IF cmd = "css" THEN {css} ELSE IF cmd = "js" THEN {js} ELSE {css, js}

Idle == \A t \in Tasks : pc[t] = "idle"

\* A source file is written, changed or removed between two commands.
Edit(f, v) ==
  /\ Idle
  /\ v # srcs[f]
  /\ srcs' = [srcs EXCEPT ![f] = v]
  /\ running' = "none"
  /\ before' = <<>>
  /\ UNCHANGED <<files, pc, stream, runs, fs>>
  /\ UNCHANGED <<stdout, ncalls, last, ref, loaded, exports, uncaught, reads>>
  /\ UNCHANGED <<bundleVars, pageVars>>

\* A command starts its tasks: each reads its sources (gulp.src) and
\* revisions them (rev()).
StartTasks(cmd) ==
  /\ Idle
  /\ runs < MaxRuns
  /\ runs' = runs + 1
  /\ running' = cmd
  /\ before' = [files |-> files, fs |-> fs]
  /\ pc' = [t \in Tasks |-> IF t \in TasksOf(cmd) THEN "dest" ELSE pc[t]]
  /\ stream' = [t \in Tasks |->
                  IF t \in TasksOf(cmd) THEN StreamOf(t, srcs) ELSE stream[t]]
  /\ UNCHANGED <<srcs, files, fs>>
  /\ UNCHANGED <<stdout, ncalls, last, ref, loaded, exports, uncaught, reads>>
  /\ UNCHANGED <<bundleVars, pageVars>>

\* .pipe(gulp.dest(dir)) after rev(): the task writes its revisioned files
WriteFiles(t) ==
  /\ pc[t] = "dest"
  /\ files' = DestStep(files, t, stream[t])
  /\ pc' = [pc EXCEPT ![t] = "manifest"]
  /\ UNCHANGED <<srcs, stream, running, before, runs, fs>>
  /\ UNCHANGED <<stdout, ncalls, last, ref, loaded, exports, uncaught, reads>>
  /\ UNCHANGED <<bundleVars, pageVars>>

\* .pipe(gulp.dest(dir)) after rev.manifest(): the task writes its
\* manifest and ends
WriteManifest(t) ==
  /\ pc[t] = "manifest"
  /\ fs' = ManifestStep(fs, t, stream[t])
  /\ pc' = [pc EXCEPT ![t] = "idle"]
  /\ UNCHANGED <<srcs, files, stream, running, before, runs>>
  /\ UNCHANGED <<stdout, ncalls, last, ref, loaded, exports, uncaught, reads>>
  /\ UNCHANGED <<bundleVars, pageVars>>

InitBuild ==
  /\ fs = [p \in ManifestPaths |-> NoFile]
  /\ ResolverQuiet
  /\ srcs \in {g \in [SourceFiles -> 0..2] :
                 \A f \in SourceFiles : g[f] \in ContentsOf(f)}
  /\ files = [c \in Categories |-> {}]
  /\ pc = [t \in Tasks |-> "idle"]
  /\ stream = [t \in Tasks |-> NoStream]
  /\ running = "none"
  /\ before = <<>>
  /\ runs = 0
  /\ BundleQuiet
  /\ PageQuiet

NextBuild ==
  \/ \E f \in SourceFiles : \E v \in ContentsOf(f) : Edit(f, v)
  \/ \E cmd \in Commands : StartTasks(cmd)
  \/ \E t \in Tasks : WriteFiles(t)
  \/ \E t \in Tasks : WriteManifest(t)
  \/ Clean

SpecBuild == InitBuild /\ [][NextBuild]_vars

(***************************************************************************)
(* The script bundle                                                       *)
(***************************************************************************)
production == <<"p","r","o","d","u","c","t","i","o","n">>
not_analytics == <<"!",".","/","j","s","/","a","n","a","l","y","t","i","c","s",".","j","s">>
WARNING_TEXT == <<"E","x","c","l","u","d","i","n","g"," ","a","n","a","l","y","t","i","c","s"," ","f","r","o","m"," ","J","a","v","a","S","c","r","i","p","t"," ","b","u","n","d","l","e",".">>

\* a === b for the comparisons of the code, which have a string literal on
\* one side: the operands have the same type and the same value; an object
\* is never equal to a value of another type
StrictEquals(a, b) ==
  /\ a.t = b.t
  /\ a.t \notin {"object", "array", "function"}
  /\ a = b

\* the values of an environment variable: unset, or a string
NodeEnvs ==
  {Undefined, Str(<<>>), Str(production),
   Str(<<"d","e","v","e","l","o","p","m","e","n","t">>),
   Str(<<"P","r","o","d","u","c","t","i","o","n">>), Str(<<"t","e","s","t">>)}
GaIds ==
  {Undefined, Str(<<>>), Str(<<"U","A","-","1">>), Str(<<"0">>)}

\* jsSrc with the two conditions joined by &&
LoadGulpfile_and ==
  /\ gulpfile = "start"
  /\ gulpfile' = "loaded"
  /\ IF ~StrictEquals(env.NODE_ENV, Str(production)) /\ ~Truthy(env.MR_GA_ID)
       THEN /\ stderr' = Append(stderr, WARNING_TEXT)
            /\ jsSrc' = <<js_glob, not_analytics>>
       ELSE /\ stderr' = stderr
            /\ jsSrc' = <<js_glob>>
  /\ UNCHANGED <<env, bundle>>
  /\ UNCHANGED <<resolverVars, buildVars, pageVars>>

\* The body of the gulpfile: const jsSrc = ['./js/**/*.js']; if
\* (process.env.NODE_ENV !== 'production' || !process.env.MR_GA_ID) {
\* console.warn(...); jsSrc.push('!./js/analytics.js'); }
LoadGulpfile ==
  /\ gulpfile = "start"
  /\ gulpfile' = "loaded"
  /\ IF ~StrictEquals(env.NODE_ENV, Str(production)) \/ ~Truthy(env.MR_GA_ID)
       THEN /\ stderr' = Append(stderr, WARNING_TEXT)
            /\ jsSrc' = <<js_glob, not_analytics>>
       ELSE /\ stderr' = stderr
            /\ jsSrc' = <<js_glob>>
  /\ UNCHANGED <<env, bundle>>
  /\ UNCHANGED <<resolverVars, buildVars, pageVars>>

\* gulp.task('js'): gulp.src(jsSrc).pipe(concat('main.js')).pipe(envify())
\* .pipe(gulp.dest('./site/js'))
BundleJs ==
  /\ gulpfile = "loaded"
  /\ gulpfile' = "built"
  /\ bundle' = Src(jsSrc, srcs)
  /\ files' = IF Src(jsSrc, srcs) = <<>> THEN files
              ELSE [files EXCEPT ![js] = files[js] \cup {main_js}]
  /\ UNCHANGED <<env, jsSrc, stderr>>
  /\ UNCHANGED <<srcs, pc, stream, running, before, runs>>
  /\ UNCHANGED <<resolverVars, pageVars>>

InitBundle ==
  /\ fs = [p \in ManifestPaths |-> NoFile]
  /\ ResolverQuiet
  /\ srcs \in {g \in [SourceFiles -> 0..1] :
                 g[css_main_css] = 1 /\ g[css_prism_css] = 0
                   /\ g[js_analytics_js] = 1}
  /\ files = [c \in Categories |-> {}]
  /\ pc = [t \in Tasks |-> "idle"]
  /\ stream = [t \in Tasks |-> NoStream]
  /\ running = "none"
  /\ before = <<>>
  /\ runs = 0
  /\ env \in [NODE_ENV : NodeEnvs, MR_GA_ID : GaIds]
  /\ gulpfile = "start"
  /\ jsSrc = <<>>
  /\ bundle = <<>>
  /\ stderr = <<>>
  /\ PageQuiet

NextBundle ==
  \/ LoadGulpfile
  \/ BundleJs

SpecBundle == InitBundle /\ [][NextBundle]_vars

(***************************************************************************)
(* The page script                                                         *)
(***************************************************************************)
target == <<"t","a","r","g","e","t">>
attributes == <<"a","t","t","r","i","b","u","t","e","s">>
href == <<"h","r","e","f">>
value == <<"v","a","l","u","e">>
resume == <<"/","r","e","s","u","m","e">>
about == <<"/","a","b","o","u","t">>
key_a == <<"a">>
key_b == <<"b">>

\* const get = (obj, path) => path.reduce((parent, child) =>
\*   (parent && parent[child] ? parent[child] : null), obj)
RECURSIVE get(_, _)
get(obj, path) ==
  IF path = <<>> THEN obj
  ELSE LET parent == obj
           child == Head(path)
           next == IF Truthy(parent) /\ Truthy(Get(parent, child))
                     THEN Get(parent, child) ELSE Null
       IN get(next, Tail(path))

\* the objects and the paths get is applied to
GetObjects ==
  { Obj(EmptyMap),
    Obj(key_a :> Null),
    Obj(key_a :> Num(0)),
    Obj(key_a :> Obj(EmptyMap)),
    Obj(key_a :> Obj(key_b :> Num(0))),
    Obj(key_a :> Obj(key_b :> Num(7))),
    Obj(key_a :> Obj(key_b :> Str(<<>>))),
    Obj(key_a :> Obj(key_b :> Str(resume))),
    Obj(key_a :> Obj(key_b :> Bool(FALSE))),
    Obj(key_a :> Obj(key_b :> Bool(TRUE))) }
GetPaths == {<<>>, <<key_a>>, <<key_b>>, <<key_a, key_b>>, <<key_b, key_a>>}

\* An element: its attributes are a NamedNodeMap, whose property named
\* after an attribute is the Attr node of the attribute (an object with
\* the attribute's text under value).
Attr(name, text) == Obj((<<"n","a","m","e">> :> Str(name)) @@ (value :> Str(text)))
Element(attrs) ==
  Obj(attributes :> Obj([n \in DOMAIN attrs |-> Attr(n, attrs[n])]))

\* the click events: on a link to /resume, on another link, on an element
\* without href, on an element without attributes, on a node that is no
\* element (no attributes property), and without a target
ClickEvents ==
  { Obj(target :> Element(href :> resume)),
    Obj(target :> Element(href :> about)),
    Obj(target :> Element((href :> resume)
                            @@ (<<"c","l","a","s","s">> :> <<"x">>))),
    Obj(target :> Element(<<"c","l","a","s","s">> :> <<"x">>)),
    Obj(target :> Element(EmptyMap)),
    Obj(target :> Obj(EmptyMap)),
    Obj(target :> Null) }

\* ga('send', 'pageview', '/resume/')
Pageview ==
  <<<<"s","e","n","d">>, <<"p","a","g","e","v","i","e","w">>, <<"/","r","e","s","u","m","e","/">>>>

\* One application of get.
ApplyGet(obj, path) ==
  /\ got' = [applied |-> TRUE, obj |-> obj, path |-> path,
             result |-> get(obj, path)]
  /\ UNCHANGED <<click, para>>
  /\ UNCHANGED <<resolverVars, buildVars, bundleVars>>

\* document.addEventListener('click', function(event) { const href =
\* get(event, ['target', 'attributes', 'href']); if (!href || href !==
\* '/resume') { return; } ga('send', 'pageview', '/resume/'); })
Click(event) ==
  /\ LET attr == get(event, <<target, attributes, href>>)
     IN IF ~Truthy(attr) \/ ~StrictEquals(attr, Str(resume))
          THEN click' = [clicked |-> TRUE, event |-> event, sent |-> <<>>]
          ELSE click' = [clicked |-> TRUE, event |-> event,
                         sent |-> <<Pageview>>]
  /\ UNCHANGED <<got, para>>
  /\ UNCHANGED <<resolverVars, buildVars, bundleVars>>

InitHandlers ==
  /\ fs = [p \in ManifestPaths |-> NoFile]
  /\ ResolverQuiet
  /\ BuildQuiet
  /\ BundleQuiet
  /\ PageQuiet

NextHandlers ==
  \/ \E obj \in GetObjects, path \in GetPaths : ApplyGet(obj, path)
  \/ \E event \in ClickEvents : Click(event)

SpecHandlers == InitHandlers /\ [][NextHandlers]_vars

(***************************************************************************)
(* The template filter firstParagraph                                      *)
(***************************************************************************)
close_p == <<"<","/","p",">">>
open_p == <<"<","p",">">>

\* text.split(sep) for a separator that is not empty: the text is scanned
\* from the left; p is the start of the piece being read, q the position
\* looked at (both counted from 0).  At a match the piece ends and the scan
\* goes on behind the separator; the rest of the text is the last piece.
RECURSIVE SplitFrom(_, _, _, _)
SplitFrom(text, sep, p, q) ==
  IF q + Len(sep) > Len(text)
    THEN <<SubSeq(text, p + 1, Len(text))>>
  ELSE IF SubSeq(text, q + 1, q + Len(sep)) = sep
    THEN <<SubSeq(text, p + 1, q)>>
           \o SplitFrom(text, sep, q + Len(sep), q + Len(sep))
  ELSE SplitFrom(text, sep, p, q + 1)

split(text, sep) == SplitFrom(text, sep, 0, 0)

\* the filter cutting at the last '</p>' instead of the first
firstParagraph_greedy(content) ==
  LET pieces == split(content, close_p)
      lastLen == Len(pieces[Len(pieces)])
  IN IF Len(pieces) = 1 THEN content
     ELSE SubSeq(content, 1, Len(content) - lastLen - Len(close_p))

\* config.addFilter('firstParagraph', content => content.split('</p>')[0])
firstParagraph(content) == split(content, close_p)[1]

\* the contents the filter is applied to: up to MaxPieces pieces of markup
Pieces == {<<"a">>, open_p, close_p, <<"<">>, <<"/","p",">">>}
RECURSIVE ContentsOfLength(_)
ContentsOfLength(n) ==
  IF n = 0 THEN {<<>>}
  ELSE {c \o x : c \in ContentsOfLength(n - 1), x \in Pieces}
Contents == UNION {ContentsOfLength(n) : n \in 0..MaxPieces}

\* A template applies the filter to a content.
ApplyFirstParagraph(content) ==
  /\ para' = [applied |-> TRUE, content |-> content,
              result |-> firstParagraph(content)]
  /\ UNCHANGED <<got, click>>
  /\ UNCHANGED <<resolverVars, buildVars, bundleVars>>

InitFilter ==
  /\ fs = [p \in ManifestPaths |-> NoFile]
  /\ ResolverQuiet
  /\ BuildQuiet
  /\ BundleQuiet
  /\ PageQuiet

NextFilter == \E content \in Contents : ApplyFirstParagraph(content)

SpecFilter == InitFilter /\ [][NextFilter]_vars

Next ==
  \/ \E route \in Categories, asset \in Assets, remember \in BOOLEAN :
       Call(route, asset, remember)
  \/ LoadModule
  \/ Clean

Spec == Init /\ [][Next]_vars

(***************************************************************************)
(* Vocabulary of the properties                                            *)
(***************************************************************************)
\* the file holds a JSON object whose values are all strings
WellFormed(data) ==
  /\ data.exists
  /\ data.valid
  /\ data.json.t = "object"
  /\ \A k \in DOMAIN data.json.m : data.json.m[k].t = "string"

\* the failure conditions of the resolver
ManifestUnreadable(o) ==
  o.kind = "throw" /\ o.err \in {"ENOENT", "SyntaxError", "TypeError"}
UnknownLogicalName(o) ==
  o.kind = "throw" /\ o.err = "Error"

\* "/" + route + "/" + name
PublicPath(route, name) == <<"/">> \o route \o <<"/">> \o name

(***************************************************************************)
(* C1                                                                      *)
(***************************************************************************)
\* C1 as stated: for every category, every well-formed manifest M (values
\* that are the empty string included) and every key k of M, mapAsset(c, k)
\* returns exactly "/" + c + "/" + M[k] and does not fail.
C1_AsStated ==
  (last.called /\ WellFormed(last.data)
     /\ last.asset \in DOMAIN last.data.json.m)
  => last.out = Return(PublicPath(last.route, last.data.json.m[last.asset].s))

\* C1 amended: for every category, every well-formed manifest M and every
\* key k of M, mapAsset(c, k) returns exactly "/" + c + "/" + M[k] and does
\* not fail when M[k] is not the empty string, and throws the "No revision
\* found" error when M[k] is the empty string.
C1_Amended ==
  (last.called /\ WellFormed(last.data)
     /\ last.asset \in DOMAIN last.data.json.m)
  => IF last.data.json.m[last.asset].s # <<>>
       THEN last.out =
              Return(PublicPath(last.route, last.data.json.m[last.asset].s))
       ELSE UnknownLogicalName(last.out)

C1_Witness ==
  /\ last.called
  /\ WellFormed(last.data)
  /\ last.asset \in DOMAIN last.data.json.m
  /\ last.data.json.m[last.asset].s # <<>>
  /\ last.out.kind = "return"

(***************************************************************************)
(* C2                                                                      *)
(***************************************************************************)
\* C2: for every category c, well-formed manifest M and logical name k that
\* is not a key of M (names that are only inherited properties of an object,
\* such as "toString", included), mapAsset(c, k) fails with the Unknown
\* Logical Name error, returns no path, and the message contains both c and
\* k verbatim.
C2_Claim ==
  (last.called /\ WellFormed(last.data)
     /\ last.asset \notin DOMAIN last.data.json.m)
  => /\ UnknownLogicalName(last.out)
     /\ last.out.path = <<>>
     /\ Contains(last.out.message, last.route)
     /\ Contains(last.out.message, last.asset)

(***************************************************************************)
(* C3                                                                      *)
(***************************************************************************)
\* C3: when no manifest file exists for the category, mapAsset fails with
\* the Manifest Unreadable condition (the ENOENT error of the read, naming
\* the manifest path) for every logical name, and returns no path.
C3_Theorem ==
  (last.called /\ ~last.data.exists)
  => /\ ManifestUnreadable(last.out)
     /\ last.out.err = "ENOENT"
     /\ Contains(last.out.message, ManifestFile(last.route))
     /\ last.out.path = <<>>

C3_Witness ==
  /\ last.called
  /\ ~last.data.exists
  /\ last.out.kind = "throw"
  /\ last.asset = main_css

(***************************************************************************)
(* C4                                                                      *)
(***************************************************************************)
\* C4: every failure of mapAsset(category, logicalName), from a missing or
\* unreadable manifest as from a missing key, produces an error whose
\* message identifies both the category and the logical name.
C4_Claim ==
  (last.called /\ last.out.kind = "throw")
  => /\ Contains(last.out.message, last.route)
     /\ Contains(last.out.message, last.asset)

(***************************************************************************)
(* C5                                                                      *)
(***************************************************************************)
\* C5: whenever mapAsset(c, k) returns a value, the value is
\* "/" + c + "/" + v, where v is the string stored under the own key k of
\* c's manifest at the time of the call; otherwise it throws.
C5_Claim ==
  (last.called /\ last.out.kind = "return")
  => /\ last.data.exists
     /\ last.data.valid
     /\ last.data.json.t = "object"
     /\ last.asset \in DOMAIN last.data.json.m
     /\ last.data.json.m[last.asset].t = "string"
     /\ last.out.path =
          PublicPath(last.route, last.data.json.m[last.asset].s)

(***************************************************************************)
(* C6                                                                      *)
(***************************************************************************)
\* C6: the resolver is idempotent.  A call of mapAsset with the arguments of
\* an earlier call, made while the manifest file of that call is as it was,
\* has the outcome of the earlier call (the same path or the same failure),
\* whatever calls were made in between.
C6_Theorem ==
  (ref.called /\ last.called
     /\ last.route = ref.route /\ last.asset = ref.asset)
  => last.out = ref.out

C6_Witness ==
  /\ ref.called
  /\ last.called
  /\ last.n > ref.n + 1
  /\ last.route = ref.route
  /\ last.asset = ref.asset
  /\ last.out.kind = "return"

(***************************************************************************)
(* C7                                                                      *)
(***************************************************************************)
\* C7: a call of mapAsset has no effect beyond reading the manifest file:
\* the manifest files are as before the call, and nothing is written to the
\* output.
C7_Claim ==
  [][(\E route \in Categories, asset \in Assets, remember \in BOOLEAN :
        Call(route, asset, remember))
     => (fs' = fs /\ stdout' = stdout)]_vars

(***************************************************************************)
(* C8                                                                      *)
(***************************************************************************)
\* the file systems that hold the same manifest as fsys for the category
\* route, and anything for the other categories
AgreeingOn(fsys, route) ==
  {[p \in ManifestPaths |->
      IF p = ManifestFile(route) THEN fsys[p] ELSE h[p]] :
     h \in [ManifestPaths \ {ManifestFile(route)} -> FileDatas]}

\* C8: the outcome of mapAsset(c, k) depends only on c, k and c's manifest:
\* on every file system that agrees on c's manifest, the other manifests
\* being present, absent or different, and after any number of earlier
\* calls, the outcome is the one of the call made.
C8_Theorem ==
  [][ncalls' > ncalls
     => \A g \in AgreeingOn(fs, last'.route) :
          mapAsset(g, <<>>, last'.route, last'.asset).ret = last'.out]_vars

C8_Witness ==
  /\ last.called
  /\ last.n >= 2
  /\ last.route = js
  /\ last.out.kind = "return"
  /\ fs[ManifestFile(css)].exists
  /\ fs[ManifestFile(css)] # fs[ManifestFile(js)]

(***************************************************************************)
(* C9                                                                      *)
(***************************************************************************)
\* the file does not hold the expected structure for the lookup of asset:
\* it is not JSON, or not an object, or the value under asset is no string
NotExpectedStructure(data, asset) ==
  \/ ~data.valid
  \/ data.json.t # "object"
  \/ /\ asset \in DOMAIN data.json.m
     /\ data.json.m[asset].t # "string"

\* C9: when the manifest file exists and does not hold the expected
\* key/value structure (not JSON; null, an array, a number; an object with a
\* non-string value under the requested key), mapAsset fails with the
\* Manifest Unreadable condition and returns no path.
C9_Claim ==
  (last.called /\ last.data.exists
     /\ NotExpectedStructure(last.data, last.asset))
  => /\ ManifestUnreadable(last.out)
     /\ last.out.path = <<>>

(***************************************************************************)
(* C10                                                                     *)
(***************************************************************************)
\* C10: loading the data module is all-or-nothing.  Either both references
\* resolve and the module exports css.main and js.main, or the error of the
\* first resolution that fails leaves the module load and nothing is
\* exported; no resolution is made twice and none is replaced by a default.
C10_Theorem ==
  [][LoadModule
     => LET o1 == mapAsset(fs, <<>>, css, main_css).ret
            o2 == mapAsset(fs, <<>>, js, main_js).ret
        IN IF o1.kind = "return" /\ o2.kind = "return"
             THEN /\ loaded' = "loaded"
                  /\ exports' = Obj((css :> Obj(main :> Str(o1.path)))
                                      @@ (js :> Obj(main :> Str(o2.path))))
                  /\ uncaught' = uncaught
                  /\ ncalls' = ncalls + 2
             ELSE /\ loaded' = "failed"
                  /\ exports' = Obj(EmptyMap)
                  /\ uncaught' = (IF o1.kind = "throw" THEN o1 ELSE o2)
                  /\ ncalls' = ncalls + (IF o1.kind = "throw" THEN 1 ELSE 2)]_vars

C10_Witness ==
  /\ loaded = "failed"
  /\ uncaught.kind = "throw"
  /\ Contains(uncaught.message, PublicPath(js, main_js))
  /\ exports = Obj(EmptyMap)
  /\ last.n = 2

(***************************************************************************)
(* C11                                                                     *)
(***************************************************************************)
\* C11: after any sequence of the tasks 'css', 'js', 'build' and 'clean',
\* each run to its end, whenever the manifest of a category exists, every
\* value in it is the name of a file that is in site/<category>, so that
\* every path mapAsset returns for a key of the manifest names such a file.
C11_Theorem ==
  Idle =>
    \A c \in Categories :
      fs[ManifestFile(c)].exists =>
        /\ WellFormed(fs[ManifestFile(c)])
        /\ \A k \in DOMAIN fs[ManifestFile(c)].json.m :
             /\ fs[ManifestFile(c)].json.m[k].s \in files[c]
             /\ \E v \in files[c] :
                  mapAsset(fs, <<>>, c, k).ret = Return(PublicPath(c, v))

\* the manifest of the stylesheets exists after a second build, next to a
\* file of an earlier build that it does not name
C11_Witness ==
  /\ Idle
  /\ runs >= 2
  /\ fs[ManifestFile(css)].exists
  /\ \E v \in files[css] :
       \A k \in DOMAIN fs[ManifestFile(css)].json.m :
         fs[ManifestFile(css)].json.m[k].s # v

(***************************************************************************)
(* C12                                                                     *)
(***************************************************************************)
\* C12: the bundle built by the task 'js' includes js/analytics.js if and
\* only if NODE_ENV is 'production' and MR_GA_ID is set to a non-empty
\* value; in every other configuration it is left out.
C12_Theorem ==
  gulpfile = "built" =>
    ((\E i \in 1..Len(bundle) : bundle[i] = js_analytics_js)
       <=> /\ env.NODE_ENV = Str(production)
           /\ env.MR_GA_ID.t = "string"
           /\ env.MR_GA_ID.s # <<>>)

C12_Witness ==
  /\ gulpfile = "built"
  /\ \E i \in 1..Len(bundle) : bundle[i] = js_analytics_js
  /\ env.MR_GA_ID = Str(<<"0">>)

(***************************************************************************)
(* C13                                                                     *)
(***************************************************************************)
\* the entries of the manifest of a category; none when there is no file
ManifestEntries(fsys, c) ==
  IF fsys[ManifestFile(c)].exists /\ fsys[ManifestFile(c)].valid
       /\ fsys[ManifestFile(c)].json.t = "object"
    THEN fsys[ManifestFile(c)].json.m
    ELSE EmptyMap

\* the entries for the files of a build: logical name -> revisioned name
EntriesOf(st) == [n \in DOMAIN st |-> Str(RevPath(n, RevHash(st[n])))]

\* the build of category c by the command started last has ended
Built(c) == Idle /\ running \in Commands /\ c \in TasksOf(running)

\* C13 as stated: after any sequence of builds of a category, its manifest
\* contains exactly the logical names produced by the last build, each
\* mapped to the hashed file name of that build's content, and no entry of
\* an earlier build.
C13_AsStated ==
  \A c \in Categories :
    Built(c) => ManifestEntries(fs, c) = EntriesOf(stream[c])

\* C13 amended: after a build of a category that had at least one source
\* file, the manifest contains exactly the logical names produced by that
\* build, each mapped to the hashed file name of that build's content, and
\* no entry of an earlier build; a build without source files writes no
\* manifest and leaves the manifest file as it was.
C13_Amended ==
  \A c \in Categories :
    Built(c) =>
      IF DOMAIN stream[c] # {}
        THEN fs[ManifestFile(c)] = Json(Obj(EntriesOf(stream[c])))
        ELSE fs[ManifestFile(c)] = before.fs[ManifestFile(c)]

\* a build of the stylesheets has dropped the entry of prism.css that the
\* manifest of the build before had, and renamed the one of main.css
C13_Witness ==
  /\ Built(css)
  /\ prism_css \in DOMAIN ManifestEntries(before.fs, css)
  /\ main_css \in DOMAIN ManifestEntries(before.fs, css)
  /\ DOMAIN ManifestEntries(fs, css) = {main_css}
  /\ ManifestEntries(fs, css)[main_css]
       # ManifestEntries(before.fs, css)[main_css]

(***************************************************************************)
(* C14                                                                     *)
(***************************************************************************)
\* every key along the path is an own key of the object reached so far
RECURSIVE PathExists(_, _)
PathExists(obj, path) ==
  IF path = <<>> THEN TRUE
  ELSE /\ obj.t = "object"
       /\ Head(path) \in DOMAIN obj.m
       /\ PathExists(obj.m[Head(path)], Tail(path))

\* the value stored at the path
RECURSIVE ValueAt(_, _)
ValueAt(obj, path) ==
  IF path = <<>> THEN obj ELSE ValueAt(obj.m[Head(path)], Tail(path))

\* C14: get(obj, path) returns the value stored at the nested path whenever
\* every key along the path exists, whatever the value (0, the empty string
\* and false included), and returns null whenever a key along the path is
\* missing.
C14_Claim ==
  got.applied =>
    IF PathExists(got.obj, got.path)
      THEN got.result = ValueAt(got.obj, got.path)
      ELSE got.result = Null

(***************************************************************************)
(* C15                                                                     *)
(***************************************************************************)
\* the text of the href attribute of the target of an event; <<>> when the
\* target has no such attribute
HrefOf(event) ==
  LET tg == event.m[target]
  IN IF tg.t = "object" /\ attributes \in DOMAIN tg.m
          /\ href \in DOMAIN tg.m[attributes].m
       THEN tg.m[attributes].m[href].m[value].s
       ELSE <<>>

\* C15: the click handler sends exactly one pageview for '/resume/' for
\* every click whose target has an href attribute equal to '/resume', and
\* sends nothing for a click on any other target.
C15_Claim ==
  click.clicked =>
    click.sent = IF HrefOf(click.event) = resume THEN <<Pageview>> ELSE <<>>

(***************************************************************************)
(* C16                                                                     *)
(***************************************************************************)
\* the site [files, fs] restricted to the output directory of a category
DirectoryOf(st8, c) ==
  [files |-> st8.files[c], manifest |-> st8.fs[ManifestFile(c)]]

\* a step of a running task
StepOf(t) == pc[t] # "idle" /\ pc'[t] # pc[t]

\* C16: 'build' runs 'css' and 'js' in parallel; a step of a task changes
\* nothing outside the directory of the task (site/css for 'css', site/js
\* for 'js'), and whatever the interleaving of the steps, when 'build' ends
\* both directories and both manifests are what the two tasks leave when
\* run one after the other, in either order.
C16_Theorem ==
  [][ /\ \A t \in Tasks : StepOf(t) =>
           \A c \in Categories \ {t} :
             DirectoryOf([files |-> files', fs |-> fs'], c)
               = DirectoryOf([files |-> files, fs |-> fs], c)
      /\ (~Idle /\ Idle' /\ running' = "build") =>
           /\ [files |-> files', fs |-> fs']
                = RunTask(RunTask(before, css, srcs), js, srcs)
           /\ [files |-> files', fs |-> fs']
                = RunTask(RunTask(before, js, srcs), css, srcs) ]_vars

\* a build has ended that wrote revisioned files and a manifest to both
\* directories, over the manifests of an earlier build
C16_Witness ==
  /\ Idle
  /\ running = "build"
  /\ \A c \in Categories :
       /\ DOMAIN stream[c] # {}
       /\ RevNames(stream[c]) \subseteq files[c]
       /\ fs[ManifestFile(c)].exists
       /\ before.fs[ManifestFile(c)].exists
       /\ before.fs[ManifestFile(c)] # fs[ManifestFile(c)]

(***************************************************************************)
(* C17                                                                     *)
(***************************************************************************)
\* C17: on loading the data module the stylesheet reference is resolved
\* before the script reference, with one manifest read per reference: the
\* css manifest is read first; if resolving (css, main.css) fails, the js
\* manifest is never read and the error raised is the one of the css
\* reference; otherwise the js manifest is read next, once.
C17_Theorem ==
  [][ loaded' # loaded =>
        LET first == mapAsset(fs, <<>>, css, main_css).ret
        IN /\ reads' # <<>>
           /\ reads'[1] = ManifestFile(css)
           /\ IF first.kind = "throw"
                THEN /\ reads' = <<ManifestFile(css)>>
                     /\ loaded' = "failed"
                     /\ uncaught' = first
                ELSE reads' = <<ManifestFile(css), ManifestFile(js)>> ]_vars

\* the module failed on the stylesheet reference, with a css manifest that
\* lacks main.css, while the script reference could not be resolved either
\* (no js manifest)
C17_Witness ==
  /\ loaded = "failed"
  /\ reads = <<ManifestFile(css)>>
  /\ fs[ManifestFile(css)].exists
  /\ ~fs[ManifestFile(js)].exists
  /\ uncaught.kind = "throw"
  /\ Contains(uncaught.message, PublicPath(css, main_css))

(***************************************************************************)
(* C18                                                                     *)
(***************************************************************************)
\* '</p>' stands in text at the position i (counted from 1)
ClosesAt(text, i) ==
  /\ i >= 1
  /\ i + Len(close_p) - 1 <= Len(text)
  /\ SubSeq(text, i, i + Len(close_p) - 1) = close_p

\* C18: for every content, firstParagraph returns the part of the content
\* before the first '</p>', and the whole content when it has no '</p>';
\* the result is a prefix of the content and does not contain '</p>'.
C18_Theorem ==
  para.applied =>
    /\ Len(para.result) <= Len(para.content)
    /\ SubSeq(para.content, 1, Len(para.result)) = para.result
    /\ \A i \in 1..Len(para.result) : ~ClosesAt(para.result, i)
    /\ IF \E i \in 1..Len(para.content) : ClosesAt(para.content, i)
         THEN /\ ClosesAt(para.content, Len(para.result) + 1)
              /\ \A i \in 1..Len(para.result) : ~ClosesAt(para.content, i)
         ELSE para.result = para.content

\* the filter has cut a content with two '</p>' behind a paragraph that is
\* not empty
C18_Witness ==
  /\ para.applied
  /\ para.result # <<>>
  /\ \E i, j \in 1..Len(para.content) :
       i < j /\ ClosesAt(para.content, i) /\ ClosesAt(para.content, j)

=============================================================================
